---- MODULE Spec2Model ----
(***************************************************************************)
(* Model of src/parse_describe.rs: the analysis pipeline that parses one   *)
(* buffer with the external engine, collects the engine's diagnostics in   *)
(* MessagesHandler and writes the RUST_PARSE_DESCRIBE document.            *)
(*                                                                         *)
(* The parsing engine (syntex_syntax) is external: it is modelled as an    *)
(* environment that calls the Emitter callbacks any number of times (up   *)
(* to MaxDiags) and then returns Ok(crate) or Err.  The output sink is an  *)
(* environment too: every write either succeeds or fails.                  *)
(***************************************************************************)
EXTENDS Integers, Sequences, FiniteSets

(* ------------------------------ bounds -------------------------------- *)

\* engine callbacks (emit / custom_emit) during one parse
MaxDiags == 2
\* declarations the StructureVisitor finds in a parsed crate
MaxElems == 1
\* the analysis calls that may run side by side
CallIds == {1, 2}

(* ------------------------- the engine's vocabulary --------------------- *)

\* syntex_syntax::errors::Level
Levels == {"Bug", "Fatal", "Error", "Warning", "Note", "Help", "Cancelled"}
\* Option<Span>: "none" or a span of the buffer
NoSpan == "none"
Spans == {"s1"}
OptSpans == {NoSpan} \cup Spans
\* Option<&str> diagnostic code
NoCode == "none"
Codes == {"E0001"}
OptCodes == {NoCode} \cup Codes
\* message texts: the diagnostics of one buffer, and those of another
Msgs == {"a", "b"}

\* The callbacks the engine may make into the Emitter while it parses a
\* buffer whose diagnostics read m.
EngineCalls(m) ==
    [ch : {"emit"}, span : OptSpans, msg : {m}, code : OptCodes, lvl : Levels]
    \cup
    [ch : {"custom_emit"}, span : Spans, msg : {m}, code : {NoCode}, lvl : Levels]

\* The smaller vocabulary used when several calls run side by side: a
\* diagnostic that is recorded, one that is suppressed, one that aborts.
ConcurrentCalls(m) ==
    { e \in EngineCalls(m) :
        \/ e.ch = "emit" /\ e.lvl \in {"Error", "Bug"} /\ e.span # NoSpan
                         /\ e.code = NoCode
        \/ e.ch = "custom_emit" /\ e.lvl = "Note" }

(* ------------------------------ tokens -------------------------------- *)

Raw(s) == [t |-> "raw", v |-> s]
LevelTok(l) == [t |-> "level", v |-> l]
RangeTok(sr) == [t |-> "range", v |-> sr]
StrTok(s) == [t |-> "str", v |-> s]
ElementTok == [t |-> "element", v |-> "decl"]

Header == Raw("RUST_PARSE_DESCRIBE 0.1 {\n")
MessagesOpen == Raw("MESSAGES {\n")
MessagesClose == Raw("}")
DocClose == Raw("\n}")
Newline == Raw("\n")

(* ------------------------------- state -------------------------------- *)

VARIABLES
    calls,        \* the analysis calls of this run
    sinkFaulty,   \* whether a write to a call's sink can fail
    vocabulary,   \* how much of its vocabulary the engine uses
    source,       \* each call's buffer: the text its diagnostics read
    pc,           \* each call's position
    out,          \* each call's sink: the tokens written so far
    heap,         \* the allocated Arc<Mutex<Vec<SourceMessage>>> cells
    handler,      \* each call's MessagesHandler.messages (0: not constructed)
    krate_result, \* each call's parse result
    idx,          \* position of the `for msg in messages` loop
    visited,      \* declarations the visitor has written
    doResult,     \* what parse_analysis_do returned
    writes,       \* write attempts on the sink made by parse_analysis_do
    firstFail,    \* the attempt that failed first (0: none)
    engineLog     \* the callbacks the engine made, in order

vars == <<calls, sinkFaulty, vocabulary, source, pc, out, heap, handler,
          krate_result, idx, visited, doResult, writes, firstFail, engineLog>>

NoResult == [ok |-> FALSE, parsed |-> FALSE, items |-> 0]
ParseResults ==
    {[ok |-> FALSE, parsed |-> TRUE, items |-> 0]}
    \cup {[ok |-> TRUE, parsed |-> TRUE, items |-> n] : n \in 0..MaxElems}

InitCommon ==
    /\ pc = [c \in CallIds |-> "start"]
    /\ out = [c \in CallIds |-> <<>>]
    /\ heap = <<>>
    /\ handler = [c \in CallIds |-> 0]
    /\ krate_result = [c \in CallIds |-> NoResult]
    /\ idx = [c \in CallIds |-> 0]
    /\ visited = [c \in CallIds |-> 0]
    /\ doResult = [c \in CallIds |-> "none"]
    /\ writes = [c \in CallIds |-> 0]
    /\ firstFail = [c \in CallIds |-> 0]
    /\ engineLog = [c \in CallIds |-> <<>>]

\* One call, any engine callback, a sink that can fail.
Init ==
    /\ calls = {1}
    /\ sinkFaulty = TRUE
    /\ vocabulary = "full"
    /\ source = [c \in CallIds |-> "a"]
    /\ InitCommon

\* All calls side by side on independent buffers and sinks.
InitConcurrent ==
    /\ calls = CallIds
    /\ sinkFaulty = FALSE
    /\ vocabulary = "small"
    /\ source = [c \in CallIds |-> IF c = 1 THEN "a" ELSE "b"]
    /\ InitCommon

(* ------------------------------ helpers ------------------------------- *)

\* The callbacks the engine may make while it parses call c's buffer.
Alphabet(c) ==
    IF vocabulary = "full" THEN EngineCalls(source[c]) ELSE ConcurrentCalls(source[c])

\* The outcomes of a sequence of n writes: 0 = all succeed, k = the k-th fails.
FailPoints(n) == IF sinkFaulty THEN 0..n ELSE {0}

\* n write attempts of call c, the k-th failing (k = 0: none fails).
Attempted(c, n, k) ==
    /\ writes' = [writes EXCEPT ![c] = @ + (IF k = 0 THEN n ELSE k)]
    /\ firstFail' = [firstFail EXCEPT ![c] =
                        IF k = 0 \/ @ # 0 THEN @ ELSE writes[c] + k]

\* The tokens of `toks` that reach the sink when the k-th write fails.
Written(toks, k) == IF k = 0 THEN toks ELSE SubSeq(toks, 1, k - 1)

\* try!: parse_analysis_do returns Err to its caller.
ReturnErr(c) ==
    /\ pc' = [pc EXCEPT ![c] = "ret"]
    /\ doResult' = [doResult EXCEPT ![c] = "Err"]

(* --------------------------- MessagesHandler --------------------------- *)

\* level_to_status_level with a catch-all arm instead of the two panics.
level_to_status_level_catchall(lvl) ==
    CASE lvl \in {"Help", "Note"} -> "OK"
      [] lvl = "Warning" -> "WARNING"
      [] OTHER -> "ERROR"

level_to_status_level(lvl) ==
    CASE lvl = "Bug" -> "PANIC"
      [] lvl = "Cancelled" -> "PANIC"
      [] lvl \in {"Help", "Note"} -> "OK"
      [] lvl = "Warning" -> "WARNING"
      [] lvl \in {"Error", "Fatal"} -> "ERROR"

\* MessagesHandler::new handing out one process-wide sequence.
MessagesHandler_shared(h) == 1

\* MessagesHandler::new: a fresh, empty sequence behind a free mutex.
MessagesHandler_new(h) == Len(h) + 1

\* Mutex<Vec<SourceMessage>>: the vector and the call holding the lock (0: free)
EmptyCell == [msgs |-> <<>>, owner |-> 0]

\* SourceRange::new(&codemap, span)
SourceRange_new(span) == span

\* writeMessage_handled inserting at the front of the vector.
writeMessage_handled_front(self, cell, sourcerange, msg, lvl) ==
    [msgs |-> <<[status_level |-> lvl, sourcerange |-> sourcerange, message |-> msg]>>
                 \o cell.msgs,
     owner |-> 0]

\* writeMessage_handled never dropping its guard.
writeMessage_handled_keeps_guard(self, cell, sourcerange, msg, lvl) ==
    [msgs |-> Append(cell.msgs,
        [status_level |-> lvl, sourcerange |-> sourcerange, message |-> msg]),
     owner |-> self]

\* self.messages.lock().unwrap(); messages.push(msg); the guard is dropped
\* at the end of the function.
writeMessage_handled(self, cell, sourcerange, msg, lvl) ==
    [msgs |-> Append(cell.msgs,
        [status_level |-> lvl, sourcerange |-> sourcerange, message |-> msg]),
     owner |-> 0]

\* lock() of call c on a mutex: it waits while another call holds it, and
\* never returns when c itself holds it.
CanLock(c, cell) == cell.owner \in {0, c}

\* A callback that reaches writeMessage_handled.
Push(c, sourcerange, msg, lvl) ==
    /\ CanLock(c, heap[handler[c]])
    /\ IF heap[handler[c]].owner = c
       THEN /\ pc' = [pc EXCEPT ![c] = "deadlock"]
            /\ UNCHANGED heap
       ELSE /\ heap' = [heap EXCEPT ![handler[c]] =
                           writeMessage_handled(c, @, sourcerange, msg, lvl)]
            /\ UNCHANGED pc

\* panic!: the process is gone.
Panic(c) ==
    /\ pc' = [pc EXCEPT ![c] = "aborted"]
    /\ UNCHANGED heap

\* Emitter::emit dropping the diagnostic code silently.
emit_ignoring_code(c, cmsp, msg, code, lvl) ==
    LET sourcerange == IF cmsp # NoSpan THEN SourceRange_new(cmsp) ELSE NoSpan
        status == level_to_status_level(lvl)
    IN  IF status = "PANIC"
        THEN Panic(c)
        ELSE Push(c, sourcerange, msg, status)

\* Emitter::emit
emit(c, cmsp, msg, code, lvl) ==
    IF code # NoCode
    THEN Panic(c)
    ELSE LET sourcerange == IF cmsp # NoSpan THEN SourceRange_new(cmsp) ELSE NoSpan
             status == level_to_status_level(lvl)
         IN  IF status = "PANIC"
             THEN Panic(c)
             ELSE Push(c, sourcerange, msg, status)

\* Emitter::custom_emit without the Help | Note early return.
custom_emit_unfiltered(c, rsp, msg, lvl) ==
    LET status == level_to_status_level(lvl)
    IN  IF status = "PANIC"
        THEN Panic(c)
        ELSE Push(c, NoSpan, msg, status)

\* Emitter::custom_emit
custom_emit(c, rsp, msg, lvl) ==
    IF lvl \in {"Help", "Note"}
    THEN UNCHANGED <<pc, heap>>
    ELSE LET status == level_to_status_level(lvl)
         IN  IF status = "PANIC"
             THEN Panic(c)
             ELSE Push(c, NoSpan, msg, status)

(* ------------------------------ actions ------------------------------- *)

\* parse_analysis_do, line 96: the header.
WriteHeader(c) ==
    /\ pc[c] = "start"
    /\ \E k \in FailPoints(1) :
        /\ Attempted(c, 1, k)
        /\ out' = [out EXCEPT ![c] = @ \o Written(<<Header>>, k)]
        /\ IF k = 0
           THEN /\ pc' = [pc EXCEPT ![c] = "session"]
                /\ UNCHANGED doResult
           ELSE ReturnErr(c)
    /\ UNCHANGED <<calls, sinkFaulty, vocabulary, source, heap, handler, krate_result,
                   idx, visited, engineLog>>

\* parse_analysis_contents, lines 105-111: loader, codemap, emitter, session.
NewSession(c) ==
    /\ pc[c] = "session"
    /\ handler' = [handler EXCEPT ![c] = MessagesHandler_new(heap)]
    /\ heap' = IF handler'[c] = Len(heap) + 1 THEN Append(heap, EmptyCell) ELSE heap
    /\ pc' = [pc EXCEPT ![c] = "parse"]
    /\ UNCHANGED <<calls, sinkFaulty, vocabulary, source, out, krate_result, idx, visited,
                   doResult, writes, firstFail, engineLog>>

\* The engine, inside parse_crate, reports a diagnostic on channel (a).
EngineEmit(c) ==
    /\ pc[c] = "parse"
    /\ Len(engineLog[c]) < MaxDiags
    /\ \E e \in Alphabet(c) :
        /\ e.ch = "emit"
        /\ engineLog' = [engineLog EXCEPT ![c] = Append(@, e)]
        /\ emit(c, e.span, e.msg, e.code, e.lvl)
    /\ UNCHANGED <<calls, sinkFaulty, vocabulary, source, out, handler, krate_result, idx,
                   visited, doResult, writes, firstFail>>

\* The engine, inside parse_crate, reports a diagnostic on channel (b).
EngineCustomEmit(c) ==
    /\ pc[c] = "parse"
    /\ Len(engineLog[c]) < MaxDiags
    /\ \E e \in Alphabet(c) :
        /\ e.ch = "custom_emit"
        /\ engineLog' = [engineLog EXCEPT ![c] = Append(@, e)]
        /\ custom_emit(c, e.span, e.msg, e.lvl)
    /\ UNCHANGED <<calls, sinkFaulty, vocabulary, source, out, handler, krate_result, idx,
                   visited, doResult, writes, firstFail>>

\* parse_crate returns (line 113): a crate or a failure.
parse_crate(c) ==
    /\ pc[c] = "parse"
    /\ \E r \in ParseResults : krate_result' = [krate_result EXCEPT ![c] = r]
    /\ pc' = [pc EXCEPT ![c] = "messages"]
    /\ UNCHANGED <<calls, sinkFaulty, vocabulary, source, out, heap, handler, idx, visited,
                   doResult, writes, firstFail, engineLog>>

\* line 115: "MESSAGES {\n".
WriteMessagesOpen(c) ==
    /\ pc[c] = "messages"
    /\ \E k \in FailPoints(1) :
        /\ Attempted(c, 1, k)
        /\ out' = [out EXCEPT ![c] = @ \o Written(<<MessagesOpen>>, k)]
        /\ IF k = 0
           THEN /\ pc' = [pc EXCEPT ![c] = "lock"]
                /\ UNCHANGED doResult
           ELSE ReturnErr(c)
    /\ UNCHANGED <<calls, sinkFaulty, vocabulary, source, heap, handler, krate_result,
                   idx, visited, engineLog>>

\* line 116: messages.lock().unwrap(); the guard lives as long as the loop.
LockMessages(c) ==
    /\ pc[c] = "lock"
    /\ CanLock(c, heap[handler[c]])
    /\ IF heap[handler[c]].owner = c
       THEN /\ pc' = [pc EXCEPT ![c] = "deadlock"]
            /\ UNCHANGED <<heap, idx>>
       ELSE /\ heap' = [heap EXCEPT ![handler[c]].owner = c]
            /\ idx' = [idx EXCEPT ![c] = 1]
            /\ pc' = [pc EXCEPT ![c] = "loop"]
    /\ UNCHANGED <<calls, sinkFaulty, vocabulary, source, out, handler, krate_result,
                   visited, doResult, writes, firstFail, engineLog>>

\* output_message: the seven writes of one MESSAGE record.
output_message(m) ==
    << Raw("MESSAGE { "),
       LevelTok(m.status_level), Raw(" "),
       (IF m.sourcerange = NoSpan THEN Raw("{ }") ELSE RangeTok(m.sourcerange)),
       Raw(" "),
       StrTok(m.message),
       Raw("}\n") >>

\* The message the loop of line 116 visits at position i.
LoopItem(c, i) == heap[handler[c]].msgs[i]

\* line 117: one iteration of the loop; try! leaves the loop and the function,
\* dropping the guard.
OutputMessage(c) ==
    /\ pc[c] = "loop"
    /\ idx[c] <= Len(heap[handler[c]].msgs)
    /\ LET toks == output_message(LoopItem(c, idx[c]))
       IN  \E k \in FailPoints(Len(toks)) :
            /\ Attempted(c, Len(toks), k)
            /\ out' = [out EXCEPT ![c] = @ \o Written(toks, k)]
            /\ IF k = 0
               THEN /\ idx' = [idx EXCEPT ![c] = @ + 1]
                    /\ UNCHANGED <<pc, doResult, heap>>
               ELSE /\ ReturnErr(c)
                    /\ heap' = [heap EXCEPT ![handler[c]].owner = 0]
                    /\ UNCHANGED idx
    /\ UNCHANGED <<calls, sinkFaulty, vocabulary, source, handler, krate_result, visited,
                   engineLog>>

\* lines 118-119: the loop ends, the guard is dropped, "}" closes the block.
WriteMessagesClose(c) ==
    /\ pc[c] = "loop"
    /\ idx[c] > Len(heap[handler[c]].msgs)
    /\ heap' = [heap EXCEPT ![handler[c]].owner = 0]
    /\ \E k \in FailPoints(1) :
        /\ Attempted(c, 1, k)
        /\ out' = [out EXCEPT ![c] = @ \o Written(<<MessagesClose>>, k)]
        /\ IF k = 0
           THEN /\ pc' = [pc EXCEPT ![c] = "outline"]
                /\ UNCHANGED doResult
           ELSE ReturnErr(c)
    /\ UNCHANGED <<calls, sinkFaulty, vocabulary, source, handler, krate_result, idx,
                   visited, engineLog>>

\* StructureVisitor: one declaration written through the TokenWriter.  The
\* visit methods return (), so a failed write is either dropped or a panic.
VisitElement(c) ==
    /\ pc[c] = "outline"
    /\ krate_result[c].ok
    /\ visited[c] < krate_result[c].items
    /\ visited' = [visited EXCEPT ![c] = @ + 1]
    /\ \E k \in FailPoints(1), panics \in BOOLEAN :
        /\ Attempted(c, 1, k)
        /\ out' = [out EXCEPT ![c] = @ \o Written(<<ElementTok>>, k)]
        /\ pc' = [pc EXCEPT ![c] = IF k # 0 /\ panics THEN "aborted" ELSE @]
    /\ UNCHANGED <<calls, sinkFaulty, vocabulary, source, heap, handler, krate_result, idx,
                   doResult, engineLog>>

\* lines 123-133: Err(_) writes nothing; after walk_crate, Ok(()).
ContentsReturn(c) ==
    /\ pc[c] = "outline"
    /\ krate_result[c].ok => visited[c] = krate_result[c].items
    /\ pc' = [pc EXCEPT ![c] = "close"]
    /\ UNCHANGED <<calls, sinkFaulty, vocabulary, source, out, heap, handler, krate_result,
                   idx, visited, doResult, writes, firstFail, engineLog>>

\* parse_analysis_do returning Ok(()) without the closing write of line 98.
WriteClose_forgotten(c) ==
    /\ pc[c] = "close"
    /\ pc' = [pc EXCEPT ![c] = "ret"]
    /\ doResult' = [doResult EXCEPT ![c] = "Ok"]
    /\ UNCHANGED <<calls, sinkFaulty, vocabulary, source, out, heap, handler,
                   krate_result, idx, visited, writes, firstFail, engineLog>>

\* parse_analysis_do, lines 98-100: "\n}" and Ok(()).
WriteClose(c) ==
    /\ pc[c] = "close"
    /\ \E k \in FailPoints(1) :
        /\ Attempted(c, 1, k)
        /\ out' = [out EXCEPT ![c] = @ \o Written(<<DocClose>>, k)]
        /\ IF k = 0
           THEN /\ pc' = [pc EXCEPT ![c] = "ret"]
                /\ doResult' = [doResult EXCEPT ![c] = "Ok"]
           ELSE ReturnErr(c)
    /\ UNCHANGED <<calls, sinkFaulty, vocabulary, source, heap, handler, krate_result,
                   idx, visited, engineLog>>

\* parse_analysis_forStdout, lines 76-78: the result of parse_analysis is
\* discarded by .ok(); println! panics when stdout fails; flush().ok().
parse_analysis_forStdout(c) ==
    /\ pc[c] = "ret"
    /\ \E k \in FailPoints(1) :
        /\ out' = [out EXCEPT ![c] = @ \o Written(<<Newline>>, k)]
        /\ pc' = [pc EXCEPT ![c] = IF k = 0 THEN "exit" ELSE "aborted"]
    /\ UNCHANGED <<calls, sinkFaulty, vocabulary, source, heap, handler, krate_result, idx,
                   visited, doResult, writes, firstFail, engineLog>>

Next ==
    \/ \E c \in calls : WriteHeader(c)
    \/ \E c \in calls : NewSession(c)
    \/ \E c \in calls : EngineEmit(c)
    \/ \E c \in calls : EngineCustomEmit(c)
    \/ \E c \in calls : parse_crate(c)
    \/ \E c \in calls : WriteMessagesOpen(c)
    \/ \E c \in calls : LockMessages(c)
    \/ \E c \in calls : OutputMessage(c)
    \/ \E c \in calls : WriteMessagesClose(c)
    \/ \E c \in calls : VisitElement(c)
    \/ \E c \in calls : ContentsReturn(c)
    \/ \E c \in calls : WriteClose(c)
    \/ \E c \in calls : parse_analysis_forStdout(c)

Spec == Init /\ [][Next]_vars

SpecConcurrent == InitConcurrent /\ [][Next]_vars

(* ------------------- the vocabulary of the properties ------------------ *)

\* The severity the specification gives a native level.
Severity(lvl) ==
    CASE lvl \in {"Help", "Note"} -> "OK"
      [] lvl = "Warning" -> "WARNING"
      [] lvl \in {"Error", "Fatal"} -> "ERROR"
      [] OTHER -> "NONE"

\* A free-form entry at an advisory level.
Suppressed(e) == e.ch = "custom_emit" /\ e.lvl \in {"Help", "Note"}

\* A location-bearing emission with a diagnostic code.
HasCode(e) == e.ch = "emit" /\ e.code # NoCode

\* An emission at a level with no severity, on a channel that looks at it.
Unrepresentable(e) == e.lvl \in {"Bug", "Cancelled"} /\ ~HasCode(e)

\* The record a surfaced diagnostic is expected to leave.
RecordOf(e) ==
    [status_level |-> Severity(e.lvl),
     sourcerange |-> IF e.ch = "emit" THEN e.span ELSE NoSpan,
     message |-> e.msg]

NotSuppressed(e) == ~Suppressed(e)

\* The records expected of a sequence of engine callbacks.
Surfaced(log) ==
    LET kept == SelectSeq(log, NotSuppressed)
    IN  [i \in 1..Len(kept) |-> RecordOf(kept[i])]

\* The positions of a document at which a MESSAGE record starts.
RecordStarts(doc) == {i \in 1..Len(doc) : doc[i] = Raw("MESSAGE { ")}

\* What a consumer reads of the record starting at position i.
ReadRecord(doc, i) ==
    [status_level |-> doc[i + 1].v,
     sourcerange |-> IF doc[i + 3].t = "range" THEN doc[i + 3].v ELSE NoSpan,
     message |-> doc[i + 5].v]

\* The MESSAGE records of a document, in document order.
RECURSIVE ReadFrom(_, _)
ReadFrom(doc, i) ==
    IF i > Len(doc) THEN <<>>
    ELSE IF doc[i] = Raw("MESSAGE { ") /\ i + 6 <= Len(doc)
         THEN <<ReadRecord(doc, i)>> \o ReadFrom(doc, i + 7)
         ELSE ReadFrom(doc, i + 1)

ReadMessages(doc) == ReadFrom(doc, 1)

Occurs(tok, doc) == \E i \in 1..Len(doc) : doc[i] = tok

Count(tok, doc) == Cardinality({i \in 1..Len(doc) : doc[i] = tok})

\* The braces a token opens minus those it closes, outside string tokens.
Braces(tok) ==
    CASE tok \in {Header, MessagesOpen, Raw("MESSAGE { ")} -> 1
      [] tok \in {MessagesClose, DocClose, Raw("}\n")} -> -1
      [] OTHER -> 0

\* The nesting depth after the first n tokens.
RECURSIVE Depth(_, _)
Depth(doc, n) == IF n = 0 THEN 0 ELSE Depth(doc, n - 1) + Braces(doc[n])

\* Every brace closes one that is open, and only the last token closes the
\* outermost one.
Balanced(doc) ==
    /\ Depth(doc, Len(doc)) = 0
    /\ \A n \in 1..(Len(doc) - 1) : Depth(doc, n) > 0

\* The messages of call c's collector.
Collected(c) == heap[handler[c]].msgs

(* ----------------------------- properties ------------------------------ *)

\* C1: whenever parse_analysis_do has returned Ok with no failed write, its
\* sink holds the header, then one MESSAGES block, then outline elements only
\* if the parse returned a crate, then the closing brace as the last token,
\* and the braces are balanced.
C1_DocumentShape ==
    \A c \in calls :
        (pc[c] = "ret" /\ doResult[c] = "Ok" /\ firstFail[c] = 0) =>
            LET doc == out[c]
                n == Len(doc)
                k == Count(ElementTok, doc)
            IN  /\ n >= 4
                /\ doc[1] = Header
                /\ doc[2] = MessagesOpen
                /\ Count(Header, doc) = 1
                /\ Count(MessagesOpen, doc) = 1
                /\ Count(MessagesClose, doc) = 1
                /\ Count(DocClose, doc) = 1
                /\ doc[n] = DocClose
                /\ doc[n - 1 - k] = MessagesClose
                /\ \A i \in (n - k)..(n - 1) : doc[i] = ElementTok
                /\ k = (IF krate_result[c].ok THEN krate_result[c].items ELSE 0)
                /\ Balanced(doc)

\* A failed parse with a recorded diagnostic, written out completely.
C1_Witness ==
    \E c \in calls :
        /\ pc[c] = "ret" /\ doResult[c] = "Ok" /\ firstFail[c] = 0
        /\ krate_result[c].parsed /\ ~krate_result[c].ok
        /\ Len(Collected(c)) = 2

\* C4: once the MESSAGES block is closed, the MESSAGE records a consumer
\* reads from it are exactly the non-suppressed diagnostics the engine
\* emitted, one record each, in emission order.
C4_MessagesInEmissionOrder ==
    \A c \in calls :
        Occurs(MessagesClose, out[c]) =>
            ReadMessages(out[c]) = Surfaced(engineLog[c])

\* A complete document after an advisory diagnostic on channel (a) was
\* followed by an error on channel (b).
C4_Witness ==
    \E c \in calls :
        /\ doResult[c] = "Ok"
        /\ Len(engineLog[c]) = 2
        /\ engineLog[c][1].ch = "emit" /\ engineLog[c][1].lvl = "Note"
        /\ engineLog[c][2].ch = "custom_emit" /\ engineLog[c][2].lvl = "Error"

\* C5: the collector's records carry OK for Help and Note, WARNING for
\* Warning and ERROR for Error and Fatal; an emission at Bug or Cancelled
\* aborts the process, appends no record, and no complete document follows.
C5_SeverityMapping ==
    \A c \in calls :
        handler[c] # 0 =>
            LET log == engineLog[c]
                last == log[Len(log)]
            IN  /\ \A i \in 1..Len(Collected(c)) :
                    Collected(c)[i].status_level =
                        Severity(SelectSeq(log, NotSuppressed)[i].lvl)
                /\ (Len(log) > 0 /\ Unrepresentable(last)) =>
                    /\ pc[c] = "aborted"
                    /\ Len(Collected(c)) =
                          Len(SelectSeq(SubSeq(log, 1, Len(log) - 1), NotSuppressed))
                    /\ ~Occurs(DocClose, out[c])

\* The engine reported a cancelled condition after a recorded diagnostic.
C5_Witness ==
    \E c \in calls :
        /\ Len(engineLog[c]) = 2
        /\ engineLog[c][1].lvl = "Fatal"
        /\ engineLog[c][2].lvl = "Cancelled" /\ engineLog[c][2].ch = "custom_emit"
        /\ pc[c] = "aborted"
        /\ Len(Collected(c)) = 1

\* C6: after an emit with a diagnostic code, at any level and with or
\* without a span, the process is aborted, the collector holds exactly what
\* it held before the call, and the sink holds nothing but the header.
C6_CodeAborts ==
    \A c \in calls :
        (Len(engineLog[c]) > 0 /\ HasCode(engineLog[c][Len(engineLog[c])])) =>
            /\ pc[c] = "aborted"
            /\ Collected(c) = Surfaced(SubSeq(engineLog[c], 1, Len(engineLog[c]) - 1))
            /\ out[c] = <<Header>>

\* A coded warning without a span arrived after a recorded diagnostic.
C6_Witness ==
    \E c \in calls :
        /\ Len(engineLog[c]) = 2
        /\ HasCode(engineLog[c][2])
        /\ engineLog[c][2].lvl = "Warning" /\ engineLog[c][2].span = NoSpan
        /\ pc[c] = "aborted"
        /\ Len(Collected(c)) = 1

\* What one callback e of the engine does to the collector it reaches.
C7_Effect(e, before, after) ==
    /\ (e.ch = "custom_emit" /\ e.lvl \in {"Help", "Note"}) => after = before
    /\ (e.ch = "custom_emit" /\ e.lvl \in {"Warning", "Error", "Fatal"}) =>
          after = Append(before, [status_level |-> Severity(e.lvl),
                                  sourcerange |-> NoSpan,
                                  message |-> e.msg])
    /\ (e.ch = "emit" /\ e.code = NoCode
           /\ e.lvl \in {"Help", "Note", "Warning", "Error", "Fatal"}) =>
          /\ Len(after) = Len(before) + 1
          /\ SubSeq(after, 1, Len(before)) = before
          /\ after[Len(after)].status_level = Severity(e.lvl)
          /\ (after[Len(after)].sourcerange # NoSpan) <=> (e.span # NoSpan)

\* C7: custom_emit at Help or Note leaves the collector unchanged and at
\* Warning, Error or Fatal appends one record without range; emit without a
\* code appends one record at every level that has a severity, Help and Note
\* included, with a range exactly when the engine gave a span.
C7_Suppression ==
    [][\A c \in calls :
          engineLog'[c] # engineLog[c] =>
              C7_Effect(engineLog'[c][Len(engineLog'[c])],
                        heap[handler[c]].msgs, heap'[handler[c]].msgs)]_vars

\* A free-form note was dropped after a free-form warning was recorded, and
\* a located note was recorded.
C7_Witness ==
    \E c \in calls :
        /\ Len(engineLog[c]) = 2
        /\ engineLog[c][1].ch = "custom_emit" /\ engineLog[c][1].lvl = "Warning"
        /\ engineLog[c][2].ch = "custom_emit" /\ engineLog[c][2].lvl = "Note"
        /\ Len(Collected(c)) = 1

\* The sink of a run of parse_analysis_forStdout holds a complete document:
\* the header first, and the closing brace right before println!'s newline.
CompleteDocument(doc) ==
    /\ Len(doc) >= 5
    /\ doc[1] = Header
    /\ doc[Len(doc) - 1] = DocClose
    /\ doc[Len(doc)] = Newline

\* C2: a run of parse_analysis_forStdout that returns normally has written
\* a complete document; every other run ended in a panic.
C2_CompleteOrAbnormal ==
    \A c \in calls : pc[c] = "exit" => CompleteDocument(out[c])

\* C3: after the first failed write parse_analysis_do attempts no further
\* write, the closing brace is not written, and the call does not return Ok.
C3_FailureStopsDocument ==
    \A c \in calls :
        firstFail[c] > 0 =>
            /\ writes[c] = firstFail[c]
            /\ ~Occurs(DocClose, out[c])
            /\ doResult[c] # "Ok"

\* C9: calls running side by side never share a collector, the records and
\* the document of a call carry only the diagnostics of its own buffer, and
\* the document a call completes is the one its own engine callbacks and
\* parse result determine.
C9_CallsIndependent ==
    \A c \in calls :
        /\ \A d \in calls \ {c} : handler[c] # 0 => handler[d] # handler[c]
        /\ handler[c] # 0 =>
              /\ Collected(c) = Surfaced(engineLog[c]) \/ pc[c] = "aborted"
              /\ \A i \in 1..Len(Collected(c)) : Collected(c)[i].message = source[c]
              /\ heap[handler[c]].owner \in {0, c}
        /\ \A i \in 1..Len(out[c]) :
              out[c][i].t = "str" => out[c][i].v = source[c]
        /\ doResult[c] = "Ok" =>
              /\ ReadMessages(out[c]) = Surfaced(engineLog[c])
              /\ Count(ElementTok, out[c]) =
                    (IF krate_result[c].ok THEN krate_result[c].items ELSE 0)
              /\ Count(DocClose, out[c]) = 1

\* Both calls have completed a document, each with a diagnostic of its own.
C9_Witness ==
    /\ calls = CallIds
    /\ \A c \in calls :
          /\ doResult[c] = "Ok"
          /\ Len(Collected(c)) >= 1
          /\ Len(engineLog[c]) = 2

\* C10, first part: once parse_crate has returned, no step changes the
\* collected sequence.
C10_Frozen ==
    \A c \in calls :
        (handler[c] # 0 /\ krate_result[c].parsed) =>
            heap'[handler[c]].msgs = heap[handler[c]].msgs

\* C10, second part: the lock is held only by the serialization loop, which
\* runs after parse_crate has returned, and no call waits on a lock it holds.
C10_LockDiscipline ==
    \A c \in calls :
        /\ pc[c] # "deadlock"
        /\ handler[c] # 0 =>
              (heap[handler[c]].owner # 0 <=>
                  (pc[c] = "loop" /\ krate_result[c].parsed))

\* C10: after the parse call has returned the accumulated sequence is never
\* modified, and the lock is taken for serialization only, after the parse
\* has returned, and never requested while held.
C10_NoMutationAfterParse == [][C10_Frozen]_vars /\ []C10_LockDiscipline

\* The serialization loop holds the lock over two recorded diagnostics.
C10_Witness ==
    \E c \in calls :
        /\ pc[c] = "loop" /\ idx[c] = 2
        /\ heap[handler[c]].owner = c
        /\ Len(Collected(c)) = 2

====
